---- MODULE Spec2Model ----
(***************************************************************************)
(* GridIndex2D<T> (include/grid_index.h): a uniform-grid spatial index.    *)
(*                                                                         *)
(* Coordinates of type T are modelled as integers, i.e. as exact multiples *)
(* of one unit of length.  For such values the quotient (v - start)/step   *)
(* is a rational whose floor is FloorDiv(v - start, step) and which is an  *)
(* integer exactly when step divides v - start; IEEE division of small     *)
(* integers rounds to a value with the same floor and the same             *)
(* integrality, so the model computes what the code computes.              *)
(* The vector grid_ is a sequence: C++ position k is sequence position     *)
(* k + 1.                                                                  *)
(***************************************************************************)
EXTENDS Integers, Sequences, FiniteSets, TLC

VARIABLES
    status,     \* "none" before the constructor ran, "constructed", or how the
                \* constructor failed: "invalid_argument", "length_error", "abort"
    args,       \* the constructor's arguments, as passed
    x_start_, x_end_, x_step_,
    y_start_, y_end_, y_step_,
    nx_, ny_,
    grid_,      \* std::vector<std::vector<size_t>>, flat: grid_[j*nx + i]
    pts,        \* history: the <<x, y, index>> inserted since the last clear, in order
    call,       \* the query or clear the caller has just made, with its arguments
    out,        \* what that query delivered (return value, destination, callback arguments)
    readers     \* the threads that run a query step by step: their locals

vars == <<status, args, x_start_, x_end_, x_step_, y_start_, y_end_, y_step_,
          nx_, ny_, grid_, pts, call, out, readers>>

fields == <<x_start_, x_end_, x_step_, y_start_, y_end_, y_step_, nx_, ny_>>

-----------------------------------------------------------------------------
(* Bounds of the model and the inputs tried *)

\* at most this many insertions between two clears
MaxPoints == 2

\* identifiers (size_t index)
Ids == {0, 1}

\* contents of the caller's vector before query_box_no_alloc: what an earlier
\* query left in it
Dests == {<<1, 0>>}

\* constructor arguments <<x_start, x_end, x_step, y_start, y_end, y_step>>:
\* around the grid x: [1,3) [3,5), y: [-1,2) [2,5) (neither span a multiple of
\* its step), every violation of the preconditions, and the grids of the tests
CtorArgs ==
    ({1, 4, 5} \X {4} \X {-1, 0, 2} \X {-1, 3, 4} \X {3} \X {-3, 0, 3})
    \cup {<<0, 10, 1, 0, 10, 1>>, <<0, 100, 10, 0, 100, 10>>}

\* On the grid x: [1,3) [3,5), y: [-1,2) [2,5) each axis has a boundary coordinate
\* of every kind: on a cell boundary below the grid, off-boundary below, on the
\* first boundary, inside cell 0, on the second boundary, inside the last cell
\* (the declared end), on a boundary beyond the last cell, off-boundary beyond.
XCoords == {-1, 0, 1, 2, 3, 4, 5, 6}
YCoords == {-4, -2, -1, 0, 2, 3, 5, 6}

\* the points inserted: on each axis one below the grid, one on each cell
\* boundary, one inside each cell (the declared end is inside the last cell) and
\* one beyond the last cell; at least one point in every cell
SweepPoints ==
    {<<0, 3>>, <<1, 5>>, <<2, 0>>, <<3, -2>>, <<4, 2>>, <<5, -1>>}

\* the rectangles query_box is called with: every x1 <= x2 (and the swapped
\* pairs one unit apart) with y spanning everything, the same for y with x
\* spanning everything, and the boxes with corners on the boundaries of cell
\* (0,0) in either order, or inside it, and boxes with no corner coordinate on
\* a cell boundary: over all cells, inside the second column, beyond the grid,
\* swapped
SweepRects ==
    {<<x[1], x[2], -4, 6>> : x \in {p \in XCoords \X XCoords : p[1] <= p[2] + 1}}
    \cup {<<-1, 6, y[1], y[2]>> : y \in {p \in YCoords \X YCoords : p[1] <= p[2] + 1}}
    \cup ({1, 3} \X {1, 3} \X {-1, 2} \X {-1, 2})
    \cup {<<2, 2, 0, 0>>, <<1, 2, -1, 0>>, <<2, 3, 0, 2>>}
    \cup {<<0, 4, -2, 3>>, <<4, 4, 0, 3>>, <<6, 8, 6, 7>>, <<4, 0, 3, -2>>}

\* tests/test_grid_index.cpp, grid [0,10) step 1: points on cell boundaries
UnitPoints == {<<5, 5>>, <<6, 6>>}
UnitRects == {<<x1, x2, y[1], y[2]>> : x1 \in {2, 5, 6, 8}, x2 \in {2, 5, 6, 8},
                                        y \in {<<5, 6>>, <<6, 5>>}}

\* tests/test_grid_index.cpp, grid [0,100) step 10: points outside the bounds;
\* and, with one tenth as the unit of length, the grid [0,10) step 1 with the
\* points (5.3,5.7), (5.8,5.2) inside cell (5,5) and the box [5,6] x [5,6]
TenPoints == {<<-10, -10>>, <<200, 200>>, <<100, 100>>, <<53, 57>>, <<58, 52>>}
TenRects ==
    {<<0, 1, 0, 1>>, <<99, 100, 99, 100>>, <<0, 5, 0, 5>>, <<95, 100, 95, 100>>,
     <<-20, -10, -20, -10>>, <<150, 300, 150, 300>>, <<85, 100, 95, 100>>,
     <<50, 60, 50, 60>>}

\* the boxes the two other query variants are called with on the first grid
FewRects ==
    ({1, 3} \X {3, 1} \X {-1, 2} \X {2, -1})
    \cup {<<2, 2, 0, 0>>, <<1, 2, -1, 0>>, <<-1, 6, -4, 6>>, <<0, 5, -2, 5>>}

\* a grid of one cell, [0,10) x [0,10) with steps 10: a point inside, one on the
\* declared ends and one outside; rectangles far from the points, around them,
\* outside the grid, swapped, and degenerate on a cell boundary
OneCellArgs == {<<0, 10, 10, 0, 10, 10>>}
OneCellIds == {7, 0}
OneCellPoints == {<<1, 1>>, <<10, 10>>, <<12, -3>>}
OneCellRects ==
    {<<8, 9, 8, 9>>, <<0, 2, 0, 2>>, <<-5, -1, 20, 30>>, <<9, 8, 9, 8>>, <<0, 0, 10, 10>>}

Points == IF x_step_ = 1 THEN UnitPoints ELSE IF x_step_ = 10 THEN TenPoints ELSE SweepPoints
Rects  == IF x_step_ = 1 THEN UnitRects ELSE IF x_step_ = 10 THEN TenRects ELSE SweepRects
Boxes  == IF x_step_ = 1 THEN UnitRects ELSE IF x_step_ = 10 THEN TenRects ELSE FewRects

-----------------------------------------------------------------------------
(* <cmath>, <algorithm> *)

Max(a, b) == IF a >= b THEN a ELSE b
Min(a, b) == IF a <= b THEN a ELSE b

\* std::floor(a / b) for b > 0
Floor(a, b) == a \div b

\* std::ceil(a / b) for b > 0
Ceil(a, b) == -((-a) \div b)

\* the comparison q == std::floor(q) never true
IsWholeNever(a, b) == FALSE

\* q == std::floor(q) for the quotient q = a / b, b > 0
IsWhole(a, b) == a % b = 0

\* INT_MAX of the 32-bit int of nx_, ny_ and cell_id
IntMax == 2147483647

\* the mathematical product of two ints a, b in 0 .. INT_MAX is no int
int_mul_overflows(a, b) == b > 0 /\ a > IntMax \div b

\* a * b of two ints in 0 .. INT_MAX as two's complement arithmetic leaves it:
\* the low 32 bits of the product, read as a signed int (computed in 16-bit
\* halves, the low halves in 8-bit steps)
int_mul_wrapped(a, b) ==
    LET al == a % 65536
        ah == a \div 65536
        bl == b % 65536
        bh == b \div 65536
        q == al * (bl \div 256)
        x == (q % 256) * 256 + al * (bl % 256)
        lo == x % 65536
        carry == (q \div 256) + (x \div 65536)
        hi == (carry + ((ah * bl) % 65536) + ((al * bh) % 65536)) % 65536
    IN  IF hi >= 32768 THEN (hi - 65536) * 65536 + lo ELSE hi * 65536 + lo

-----------------------------------------------------------------------------
(* private helpers *)

\* clamp_cell with the limit n for n - 1
clamp_cell_wide(i, n) == Max(0, Min(i, n))

\* std::max(0, std::min(i, n - 1))
clamp_cell(i, n) == Max(0, Min(i, n - 1))

\* get_cell_x with the index wrapped into the grid instead of clamped
get_cell_x_wrapped(x) ==
    LET i == Floor(x - x_start_, x_step_)
    IN  i % nx_

get_cell_x(x) ==
    LET i == Floor(x - x_start_, x_step_)
    IN  clamp_cell(i, nx_)

get_cell_y(y) ==
    LET j == Floor(y - y_start_, y_step_)
    IN  clamp_cell(j, ny_)

\* get_cell_id with rows and columns exchanged
get_cell_id_transposed(i, j) == i * ny_ + j

get_cell_id(i, j) == j * nx_ + i

\* ordered without the swap
ordered_unswapped(v1, v2) == <<v1, v2>>

\* if (v1 > v2) std::swap(v1, v2);   the pair after the swap
ordered(v1, v2) == IF v1 > v2 THEN <<v2, v1>> ELSE <<v1, v2>>

\* lower_cell that never skips the cell the boundary begins
lower_cell_kept(v, start, step, include_min) == Floor(v - start, step)

\* lower_cell that skips a cell whenever the edge is excluded
lower_cell_always_adjusted(v, start, step, include_min) ==
    IF ~include_min THEN Floor(v - start, step) + 1 ELSE Floor(v - start, step)

\* i_min (j_min) before clamping: the floor of the normalized lower boundary,
\* incremented if the edge is excluded and the boundary is a cell boundary
lower_cell(v, start, step, include_min) ==
    LET idx == Floor(v - start, step)
    IN  IF ~include_min
        THEN IF IsWhole(v - start, step) THEN idx + 1 ELSE idx
        ELSE idx

\* upper_cell that never drops the cell the boundary begins
upper_cell_kept(v, start, step, include_max) == Floor(v - start, step)

\* i_max (j_max) before clamping: decremented if the edge is excluded and the
\* boundary is a cell boundary
upper_cell(v, start, step, include_max) ==
    LET idx == Floor(v - start, step)
    IN  IF ~include_max
        THEN IF IsWhole(v - start, step) THEN idx - 1 ELSE idx
        ELSE idx

\* get_cell_range without the adjustments for excluded edges
get_cell_range_inclusive(x1, x2, y1, y2, include_min, include_max) ==
    LET xs == ordered(x1, x2)
        ys == ordered(y1, y2)
    IN  [i_min |-> clamp_cell(Floor(xs[1] - x_start_, x_step_), nx_),
         i_max |-> clamp_cell(Floor(xs[2] - x_start_, x_step_), nx_),
         j_min |-> clamp_cell(Floor(ys[1] - y_start_, y_step_), ny_),
         j_max |-> clamp_cell(Floor(ys[2] - y_start_, y_step_), ny_)]

\* get_cell_range whose flags stay with the arguments when the corners are swapped
get_cell_range_flags_swapped(x1, x2, y1, y2, include_min, include_max) ==
    LET xs == ordered(x1, x2)
        ys == ordered(y1, y2)
        x_min == IF x1 > x2 THEN include_max ELSE include_min
        x_max == IF x1 > x2 THEN include_min ELSE include_max
        y_min == IF y1 > y2 THEN include_max ELSE include_min
        y_max == IF y1 > y2 THEN include_min ELSE include_max
    IN  [i_min |-> clamp_cell(lower_cell(xs[1], x_start_, x_step_, x_min), nx_),
         i_max |-> clamp_cell(upper_cell(xs[2], x_start_, x_step_, x_max), nx_),
         j_min |-> clamp_cell(lower_cell(ys[1], y_start_, y_step_, y_min), ny_),
         j_max |-> clamp_cell(upper_cell(ys[2], y_start_, y_step_, y_max), ny_)]

get_cell_range(x1, x2, y1, y2, include_min, include_max) ==
    LET xs == ordered(x1, x2)
        ys == ordered(y1, y2)
    IN  [i_min |-> clamp_cell(lower_cell(xs[1], x_start_, x_step_, include_min), nx_),
         i_max |-> clamp_cell(upper_cell(xs[2], x_start_, x_step_, include_max), nx_),
         j_min |-> clamp_cell(lower_cell(ys[1], y_start_, y_step_, include_min), ny_),
         j_max |-> clamp_cell(upper_cell(ys[2], y_start_, y_step_, include_max), ny_)]

-----------------------------------------------------------------------------
(* the traversals of the three query variants *)

\* collect_row that walks the columns from i_max down
RECURSIVE collect_row_descending(_, _, _, _)
collect_row_descending(result, i, i_max, j) ==
    IF i > i_max THEN result
    ELSE collect_row_descending(result, i + 1, i_max, j) \o grid_[get_cell_id(i, j) + 1]

\* for (int i = ...; i <= i_max; ++i) result.insert(result.end(), cell.begin(), cell.end());
RECURSIVE collect_row(_, _, _, _)
collect_row(result, i, i_max, j) ==
    IF i > i_max THEN result
    ELSE collect_row(result \o grid_[get_cell_id(i, j) + 1], i + 1, i_max, j)

\* collect_rows with j < j_max for j <= j_max
RECURSIVE collect_rows_strict(_, _, _, _, _)
collect_rows_strict(result, j, j_max, i_min, i_max) ==
    IF j >= j_max THEN result
    ELSE collect_rows_strict(collect_row(result, i_min, i_max, j), j + 1, j_max, i_min, i_max)

\* collect_rows that tests j <= j_max only after the first row
RECURSIVE collect_rows_do_while(_, _, _, _, _)
collect_rows_do_while(result, j, j_max, i_min, i_max) ==
    LET row == collect_row(result, i_min, i_max, j)
    IN  IF j + 1 > j_max THEN row
        ELSE collect_rows_do_while(row, j + 1, j_max, i_min, i_max)

\* for (int j = ...; j <= j_max; ++j) for (int i = i_min; i <= i_max; ++i) ...
RECURSIVE collect_rows(_, _, _, _, _)
collect_rows(result, j, j_max, i_min, i_max) ==
    IF j > j_max THEN result
    ELSE collect_rows(collect_row(result, i_min, i_max, j), j + 1, j_max, i_min, i_max)

query_box(x1, x2, y1, y2, include_min, include_max) ==
    LET r == get_cell_range(x1, x2, y1, y2, include_min, include_max)
    IN  collect_rows(<< >>, r.j_min, r.j_max, r.i_min, r.i_max)

\* query_box_no_alloc that never clears the destination
query_box_no_alloc_uncleared(x1, x2, y1, y2, result, append_results, include_min, include_max) ==
    LET r == get_cell_range(x1, x2, y1, y2, include_min, include_max)
    IN  collect_rows(result, r.j_min, r.j_max, r.i_min, r.i_max)

\* query_box_no_alloc that always clears the destination
query_box_no_alloc_cleared(x1, x2, y1, y2, result, append_results, include_min, include_max) ==
    LET r == get_cell_range(x1, x2, y1, y2, include_min, include_max)
    IN  collect_rows(<< >>, r.j_min, r.j_max, r.i_min, r.i_max)

query_box_no_alloc(x1, x2, y1, y2, result, append_results, include_min, include_max) ==
    LET cleared == IF ~append_results THEN << >> ELSE result
        r == get_cell_range(x1, x2, y1, y2, include_min, include_max)
    IN  collect_rows(cleared, r.j_min, r.j_max, r.i_min, r.i_max)

\* for (size_t idx : cell) callback(idx);   the callback's arguments, in call order
RECURSIVE visit_cell(_, _, _)
visit_cell(calls, cell, k) ==
    IF k > Len(cell) THEN calls
    ELSE visit_cell(Append(calls, cell[k]), cell, k + 1)

RECURSIVE visit_row(_, _, _, _)
visit_row(calls, i, i_max, j) ==
    IF i > i_max THEN calls
    ELSE visit_row(visit_cell(calls, grid_[get_cell_id(i, j) + 1], 1), i + 1, i_max, j)

RECURSIVE visit_rows(_, _, _, _, _)
visit_rows(calls, j, j_max, i_min, i_max) ==
    IF j > j_max THEN calls
    ELSE visit_rows(visit_row(calls, i_min, i_max, j), j + 1, j_max, i_min, i_max)

query_box_callback(x1, x2, y1, y2, include_min, include_max) ==
    LET r == get_cell_range(x1, x2, y1, y2, include_min, include_max)
    IN  visit_rows(<< >>, r.j_min, r.j_max, r.i_min, r.i_max)

-----------------------------------------------------------------------------
(* utility member functions *)

get_num_cells == Len(grid_)

\* for (const auto& cell : grid) count += cell.size();   from position k on
RECURSIVE count_from(_, _)
count_from(grid, k) ==
    IF k > Len(grid) THEN 0
    ELSE Len(grid[k]) + count_from(grid, k + 1)

get_num_points == count_from(grid_, 1)

get_dimensions == <<nx_, ny_>>

get_bounds == <<x_start_, x_end_, y_start_, y_end_>>

-----------------------------------------------------------------------------
(* the calls *)

\* the locals i_min, i_max, j_min, j_max of a query that has not resolved them
NoRange == [i_min |-> 0, i_max |-> 0, j_min |-> 0, j_max |-> 0]

NoCall == [name |-> "none", x1 |-> 0, x2 |-> 0, y1 |-> 0, y2 |-> 0,
           include_min |-> TRUE, include_max |-> TRUE,
           result |-> << >>, append_results |-> FALSE,
           dropped |-> 0, repeat |-> 0,
           cell_id |-> 0, r |-> NoRange, trapped |-> FALSE, conv |-> "none",
           corners |-> << >>]

\* the threads that query, and the locals of a thread that runs no query
Readers == {1, 2}

NoReader == [pc |-> "idle", call |-> NoCall, r |-> NoRange, i |-> 0, j |-> 0,
             acc |-> << >>, met |-> FALSE]

Init ==
    /\ status = "none"
    /\ args = << >>
    /\ x_start_ = 0 /\ x_end_ = 0 /\ x_step_ = 0
    /\ y_start_ = 0 /\ y_end_ = 0 /\ y_step_ = 0
    /\ nx_ = 0 /\ ny_ = 0
    /\ grid_ = << >>
    /\ pts = << >>
    /\ call = NoCall
    /\ out = << >>
    /\ readers = [t \in Readers |-> NoReader]

\* the constructor's checks with > for >=
invalid_argument_strict(x_start, x_end, x_step, y_start, y_end, y_step) ==
    IF x_step <= 0 \/ y_step <= 0 THEN TRUE
    ELSE IF x_start > x_end \/ y_start > y_end THEN TRUE
    ELSE FALSE

\* the constructor's checks: does it throw std::invalid_argument?
invalid_argument(x_start, x_end, x_step, y_start, y_end, y_step) ==
    IF x_step <= 0 \/ y_step <= 0 THEN TRUE
    ELSE IF x_start >= x_end \/ y_start >= y_end THEN TRUE
    ELSE FALSE

\* the number of cells rounded down
cells_along_floor(start, end, step) == Floor(end - start, step)

\* nx_ = static_cast<int>(std::ceil((x_end - x_start) / x_step)), likewise ny_
cells_along(start, end, step) == Ceil(end - start, step)

\* how grid_.resize(nx_ * ny_) ends.  The product is computed in int; when it
\* is no int the behaviour is undefined: a build either leaves the wrapped
\* value or traps.  A negative value converts to a size_t beyond max_size(),
\* for which resize throws std::length_error; any other value is the number of
\* buckets allocated.
resize_outcomes(nx, ny) ==
    IF ~int_mul_overflows(nx, ny) THEN {[status |-> "constructed", size |-> nx * ny]}
    ELSE {IF int_mul_wrapped(nx, ny) < 0
          THEN [status |-> "length_error", size |-> 0]
          ELSE [status |-> "constructed", size |-> int_mul_wrapped(nx, ny)],
          [status |-> "abort", size |-> 0]}

\* GridIndex2D(x_start, x_end, x_step, y_start, y_end, y_step)
Construct(x_start, x_end, x_step, y_start, y_end, y_step) ==
    /\ status = "none"
    /\ args' = <<x_start, x_end, x_step, y_start, y_end, y_step>>
    /\ IF invalid_argument(x_start, x_end, x_step, y_start, y_end, y_step)
       THEN /\ status' = "invalid_argument"
            /\ UNCHANGED <<fields, grid_>>
       ELSE \E end \in resize_outcomes(cells_along(x_start, x_end, x_step),
                                        cells_along(y_start, y_end, y_step)) :
            /\ status' = end.status
            /\ IF end.status = "constructed"
               THEN /\ x_start_' = x_start /\ x_end_' = x_end /\ x_step_' = x_step
                    /\ y_start_' = y_start /\ y_end_' = y_end /\ y_step_' = y_step
                    /\ nx_' = cells_along(x_start, x_end, x_step)
                    /\ ny_' = cells_along(y_start, y_end, y_step)
                    /\ grid_' = [k \in 1 .. end.size |-> << >>]
               ELSE UNCHANGED <<fields, grid_>>
    /\ UNCHANGED <<pts, call, out, readers>>

\* the caller holds no query result
Idle == status = "constructed" /\ call.name = "none"

\* insert that rejects a point left of or below the grid
insert_rejecting(x, y, index) ==
    IF x < x_start_ \/ y < y_start_ THEN grid_
    ELSE LET cell_id == get_cell_id(get_cell_x(x), get_cell_y(y))
         IN  [grid_ EXCEPT ![cell_id + 1] = Append(@, index)]

\* insert that puts the index in front of the cell's entries
insert_prepending(x, y, index) ==
    LET cell_id == get_cell_id(get_cell_x(x), get_cell_y(y))
    IN  [grid_ EXCEPT ![cell_id + 1] = <<index>> \o @]

\* grid_ after insert(x, y, index)
insert(x, y, index) ==
    LET i == get_cell_x(x)
        j == get_cell_y(y)
        cell_id == get_cell_id(i, j)
    IN  [grid_ EXCEPT ![cell_id + 1] = Append(@, index)]

\* void insert(T x, T y, size_t index)
Insert(x, y, index) ==
    /\ Idle
    /\ Len(pts) < MaxPoints
    /\ grid_' = insert(x, y, index)
    /\ pts' = Append(pts, <<x, y, index>>)
    /\ UNCHANGED <<status, args, fields, call, out, readers>>

\* cell.pop_back() instead of cell.clear() for every cell
clear_pop_back ==
    [k \in 1 .. Len(grid_) |->
        IF grid_[k] = << >> THEN << >> ELSE SubSeq(grid_[k], 1, Len(grid_[k]) - 1)]

\* grid_.clear() instead of cell.clear() for every cell
clear_of_grid == << >>

\* clear that spares the last bucket
clear_sparing == [k \in 1 .. Len(grid_) |-> IF k = Len(grid_) THEN grid_[k] ELSE << >>]

\* grid_ after clear()
clear == [k \in 1 .. Len(grid_) |-> << >>]

\* void clear(); the caller may call it again at once.  The call records how
\* many entries the grid held before the first of the clear() calls made in a
\* row, and whether the call before was a clear() too.
Clear ==
    /\ status = "constructed"
    /\ call.name \in {"none", "clear"}
    /\ grid_' = clear
    /\ pts' = << >>
    /\ call' = [NoCall EXCEPT !.name = "clear",
                              !.dropped = IF call.name = "clear" THEN call.dropped
                                                                 ELSE Len(pts),
                              !.repeat = IF call.name = "clear" THEN 2 ELSE 1]
    /\ UNCHANGED <<status, args, fields, out, readers>>

QueryCall(name, x1, x2, y1, y2, include_min, include_max) ==
    [NoCall EXCEPT !.name = name, !.x1 = x1, !.x2 = x2, !.y1 = y1, !.y2 = y2,
                   !.include_min = include_min, !.include_max = include_max]

\* query_box that takes the entries it returns out of the grid
QueryBox_consuming(x1, x2, y1, y2, include_min, include_max) ==
    /\ Idle
    /\ out' = query_box(x1, x2, y1, y2, include_min, include_max)
    /\ call' = QueryCall("query_box", x1, x2, y1, y2, include_min, include_max)
    /\ grid_' = clear
    /\ UNCHANGED <<status, args, fields, pts, readers>>

\* std::vector<size_t> query_box(x1, x2, y1, y2, include_min, include_max) const
QueryBox(x1, x2, y1, y2, include_min, include_max) ==
    /\ Idle
    /\ out' = query_box(x1, x2, y1, y2, include_min, include_max)
    /\ call' = QueryCall("query_box", x1, x2, y1, y2, include_min, include_max)
    /\ UNCHANGED <<status, args, fields, grid_, pts, readers>>

\* void query_box_no_alloc(x1, x2, y1, y2, result, append_results, include_min, include_max) const
QueryBoxNoAlloc(x1, x2, y1, y2, result, append_results, include_min, include_max) ==
    /\ Idle
    /\ out' = query_box_no_alloc(x1, x2, y1, y2, result, append_results,
                                 include_min, include_max)
    /\ call' = [QueryCall("query_box_no_alloc", x1, x2, y1, y2, include_min, include_max)
                   EXCEPT !.result = result, !.append_results = append_results]
    /\ UNCHANGED <<status, args, fields, grid_, pts, readers>>

\* void query_box_callback(x1, x2, y1, y2, callback, include_min, include_max) const
QueryBoxCallback(x1, x2, y1, y2, include_min, include_max) ==
    /\ Idle
    /\ out' = query_box_callback(x1, x2, y1, y2, include_min, include_max)
    /\ call' = QueryCall("query_box_callback", x1, x2, y1, y2, include_min, include_max)
    /\ UNCHANGED <<status, args, fields, grid_, pts, readers>>

\* the caller is done with the result of its call; the grid is as it was
Discard ==
    /\ status = "constructed"
    /\ call.name # "none"
    /\ call' = NoCall
    /\ out' = << >>
    /\ UNCHANGED <<status, args, fields, grid_, pts, readers>>

Next ==
    \/ \E a \in CtorArgs : Construct(a[1], a[2], a[3], a[4], a[5], a[6])
    \/ Idle /\ \E p \in Points, index \in Ids : Insert(p[1], p[2], index)
    \/ Clear
    \/ Idle /\ \E r \in Rects, include_min \in BOOLEAN, include_max \in BOOLEAN :
          QueryBox(r[1], r[2], r[3], r[4], include_min, include_max)
    \/ Idle /\ \E r \in Boxes, result \in Dests, append_results \in BOOLEAN,
          include_min \in BOOLEAN, include_max \in BOOLEAN :
          QueryBoxNoAlloc(r[1], r[2], r[3], r[4], result, append_results,
                          include_min, include_max)
    \/ Idle /\ \E r \in Boxes, include_min \in BOOLEAN, include_max \in BOOLEAN :
          QueryBoxCallback(r[1], r[2], r[3], r[4], include_min, include_max)
    \/ Discard

Spec == Init /\ [][Next]_vars

\* the same operations on the grid of one cell
NextOneCell ==
    \/ \E a \in OneCellArgs : Construct(a[1], a[2], a[3], a[4], a[5], a[6])
    \/ Idle /\ \E p \in OneCellPoints, index \in OneCellIds : Insert(p[1], p[2], index)
    \/ Clear
    \/ Idle /\ \E r \in OneCellRects, include_min \in BOOLEAN, include_max \in BOOLEAN :
          QueryBox(r[1], r[2], r[3], r[4], include_min, include_max)
    \/ Idle /\ \E r \in OneCellRects, result \in Dests, append_results \in BOOLEAN,
          include_min \in BOOLEAN, include_max \in BOOLEAN :
          QueryBoxNoAlloc(r[1], r[2], r[3], r[4], result, append_results,
                          include_min, include_max)
    \/ Idle /\ \E r \in OneCellRects, include_min \in BOOLEAN, include_max \in BOOLEAN :
          QueryBoxCallback(r[1], r[2], r[3], r[4], include_min, include_max)
    \/ Discard

SpecOneCell == Init /\ [][NextOneCell]_vars

-----------------------------------------------------------------------------
(* construction of grids whose number of cells is no int *)

\* <<end, step>> of an axis that starts at 0 and has at least 46341 cells, so
\* that the product of any two of the cell counts exceeds INT_MAX
WideSpans ==
    {<<46341, 1>>, <<65535, 1>>, <<65536, 1>>, <<65537, 1>>, <<92682, 1>>,
     <<131071, 1>>, <<131072, 1>>, <<92682, 2>>, <<131071, 2>>, <<131072, 2>>}

\* buckets beyond this number are not enumerated
MaxAllocated == 131073

\* wide grids whose wrapped number of cells is negative or small enough to
\* allocate; a grid of 3 x 2 cells; a step of 0
WideArgs ==
    {a \in {<<0, x[1], x[2], 0, y[1], y[2]>> : x \in WideSpans, y \in WideSpans} :
        int_mul_wrapped(cells_along(a[1], a[2], a[3]), cells_along(a[4], a[5], a[6]))
            <= MaxAllocated}
    \cup {<<0, 3, 1, 0, 4, 2>>, <<0, 65536, 0, 0, 65536, 1>>}

NextOverflow ==
    \E a \in WideArgs : Construct(a[1], a[2], a[3], a[4], a[5], a[6])

SpecOverflow == Init /\ [][NextOverflow]_vars

-----------------------------------------------------------------------------
(* coordinates whose cell index is no int *)

\* INT_MIN
IntMin == -IntMax - 1

\* A coordinate of type T = double as a record: the value c.at when c.far is
\* "no"; otherwise a NaN ("nan") or a value so far from the grid that the
\* quotient (c - start) / step lies outside the range of int: "below" and
\* "above" are such values with a whole quotient (-1e10 and 1e10 on a grid of
\* step 1, or an infinity), "below_off" and "above_off" nearer ones with a
\* quotient that is not whole (-3e9 - 0.5 and 3e9 + 0.5).
Near(v) == [far |-> "no", at |-> v]
Far(kind) == [far |-> kind, at |-> 0]

\* the order of the far values and the near ones
far_rank(c) ==
    CASE c.far = "below" -> -2
      [] c.far = "below_off" -> -1
      [] c.far = "above_off" -> 1
      [] c.far = "above" -> 2
      [] OTHER -> 0

\* v1 > v2
far_greater(c1, c2) ==
    IF c1.far = "nan" \/ c2.far = "nan" THEN FALSE
    ELSE IF c1.far = "no" /\ c2.far = "no" THEN c1.at > c2.at
    ELSE far_rank(c1) > far_rank(c2)

\* if (v1 > v2) std::swap(v1, v2);
far_ordered(c1, c2) == IF far_greater(c1, c2) THEN <<c2, c1>> ELSE <<c1, c2>>

\* what the conversion instruction of a build makes of a double outside the
\* range of int: INT_MIN whatever the value ("indefinite": cvttsd2si of
\* x86-64), or the nearest int and 0 for a NaN ("saturating": fcvtzs of AArch64)
Conversions == {"indefinite", "saturating"}

\* static_cast<int>(std::floor((v - start) / step)).  The conversion of a
\* value outside the range of int is undefined; the build conv decides.
static_cast_int(c, start, step, conv) ==
    IF c.far = "no" THEN Floor(c.at - start, step)
    ELSE IF conv = "indefinite" THEN IntMin
    ELSE IF far_rank(c) > 0 THEN IntMax
    ELSE IF far_rank(c) < 0 THEN IntMin
    ELSE 0

\* normalized == std::floor(normalized); a NaN equals nothing
far_is_whole(c, start, step) ==
    IF c.far = "no" THEN IsWhole(c.at - start, step) ELSE c.far \in {"below", "above"}

\* i_min++, j_min++: at INT_MAX the increment overflows, which is undefined; a
\* build wraps or traps
int_incremented(i) ==
    IF i = IntMax THEN {[trap |-> FALSE, idx |-> IntMin], [trap |-> TRUE, idx |-> i]}
    ELSE {[trap |-> FALSE, idx |-> i + 1]}

\* i_max--, j_max--
int_decremented(i) ==
    IF i = IntMin THEN {[trap |-> FALSE, idx |-> IntMax], [trap |-> TRUE, idx |-> i]}
    ELSE {[trap |-> FALSE, idx |-> i - 1]}

\* i_min (j_min) before clamping, every outcome
far_lower_cell(c, start, step, include_min, conv) ==
    LET idx == static_cast_int(c, start, step, conv)
    IN  IF ~include_min /\ far_is_whole(c, start, step)
        THEN int_incremented(idx)
        ELSE {[trap |-> FALSE, idx |-> idx]}

\* i_max (j_max) before clamping, every outcome
far_upper_cell(c, start, step, include_max, conv) ==
    LET idx == static_cast_int(c, start, step, conv)
    IN  IF ~include_max /\ far_is_whole(c, start, step)
        THEN int_decremented(idx)
        ELSE {[trap |-> FALSE, idx |-> idx]}

\* the outcomes of get_cell_range
far_get_cell_range(x1, x2, y1, y2, include_min, include_max, conv) ==
    LET xs == far_ordered(x1, x2)
        ys == far_ordered(y1, y2)
    IN  {[trapped |-> a.trap \/ b.trap \/ c.trap \/ d.trap,
          i_min |-> clamp_cell(a.idx, nx_), i_max |-> clamp_cell(b.idx, nx_),
          j_min |-> clamp_cell(c.idx, ny_), j_max |-> clamp_cell(d.idx, ny_)] :
            a \in far_lower_cell(xs[1], x_start_, x_step_, include_min, conv),
            b \in far_upper_cell(xs[2], x_start_, x_step_, include_max, conv),
            c \in far_lower_cell(ys[1], y_start_, y_step_, include_min, conv),
            d \in far_upper_cell(ys[2], y_start_, y_step_, include_max, conv)}

far_get_cell_x(c, conv) == clamp_cell(static_cast_int(c, x_start_, x_step_, conv), nx_)
far_get_cell_y(c, conv) == clamp_cell(static_cast_int(c, y_start_, y_step_, conv), ny_)

\* is k a position of grid_?  An access to any other position is undefined
\* and nothing of it is modelled.
in_grid(k) == 0 <= k /\ k < Len(grid_)

\* are the cells of all four indices columns and rows of the grid?
range_in_grid(r) ==
    /\ 0 <= r.i_min /\ r.i_min < nx_ /\ 0 <= r.i_max /\ r.i_max < nx_
    /\ 0 <= r.j_min /\ r.j_min < ny_ /\ 0 <= r.j_max /\ r.j_max < ny_

\* insert(x, y, index) in the build conv; the call records the coordinates
\* <<x, y>> and the bucket position it computed
FarInsert(x, y, index, conv) ==
    /\ Idle
    /\ Len(pts) < MaxPoints
    /\ LET i == far_get_cell_x(x, conv)
           j == far_get_cell_y(y, conv)
           cell_id == get_cell_id(i, j)
       IN  /\ grid_' = IF in_grid(cell_id)
                       THEN [grid_ EXCEPT ![cell_id + 1] = Append(@, index)]
                       ELSE grid_
           /\ call' = [NoCall EXCEPT !.name = "insert", !.corners = <<x, y>>,
                                     !.cell_id = cell_id, !.conv = conv]
    /\ pts' = Append(pts, <<x, y, index>>)
    /\ UNCHANGED <<status, args, fields, out, readers>>

\* what a query over the cell range r delivers
far_traversal(name, r) ==
    IF r.trapped \/ ~range_in_grid(r) THEN << >>
    ELSE IF name = "query_box_callback"
    THEN visit_rows(<< >>, r.j_min, r.j_max, r.i_min, r.i_max)
    ELSE collect_rows(<< >>, r.j_min, r.j_max, r.i_min, r.i_max)

\* one of the three queries (query_box_no_alloc with an empty destination) in
\* the build conv; the call records the corners <<x1, x2, y1, y2>>, the cell
\* range it resolved and whether an increment trapped
FarQuery(name, x1, x2, y1, y2, include_min, include_max, conv) ==
    /\ Idle
    /\ \E r \in far_get_cell_range(x1, x2, y1, y2, include_min, include_max, conv) :
          /\ call' = [NoCall EXCEPT !.name = name, !.corners = <<x1, x2, y1, y2>>,
                                    !.include_min = include_min,
                                    !.include_max = include_max,
                                    !.r = [i_min |-> r.i_min, i_max |-> r.i_max,
                                           j_min |-> r.j_min, j_max |-> r.j_max],
                                    !.trapped = r.trapped, !.conv = conv]
          /\ out' = far_traversal(name, r)
    /\ UNCHANGED <<status, args, fields, grid_, pts, readers>>

\* the grid x: [1,3) [3,5), y: [-1,2) [2,5) and the grid of one cell
FarArgs == {<<1, 4, 2, -1, 3, 3>>, <<0, 10, 10, 0, 10, 10>>}

\* points beyond the range of int on either side, a NaN, and points of which
\* one or both coordinates are near (inside cell (1,1), on the boundary 3)
FarPoints ==
    {<<Far("below"), Far("above")>>, <<Far("above_off"), Far("below_off")>>,
     <<Far("nan"), Near(3)>>, <<Near(4), Near(3)>>}

\* rectangles with far corners in either order, with a NaN, and near ones: on
\* cell boundaries, outside the grid on both sides, swapped, inside cell (1,1);
\* from inside cell (1,1) to far above, from far below to inside cell (0,0)
FarRects ==
    {<<Far("below"), Far("above"), Far("below"), Far("above")>>,
     <<Far("above"), Far("below"), Near(0), Near(1)>>,
     <<Far("above"), Far("above"), Far("below"), Far("below")>>,
     <<Far("below"), Far("below"), Far("above"), Far("above")>>,
     <<Far("nan"), Near(2), Near(0), Far("nan")>>,
     <<Near(1), Far("above"), Far("below"), Near(2)>>,
     <<Near(4), Far("above"), Near(3), Far("above")>>,
     <<Near(4), Far("above_off"), Near(3), Far("above_off")>>,
     <<Far("below_off"), Near(2), Far("below_off"), Near(0)>>,
     <<Near(1), Near(3), Near(-1), Near(2)>>,
     <<Near(3), Near(1), Near(2), Near(-1)>>,
     <<Near(-7), Near(-5), Near(8), Near(11)>>,
     <<Near(4), Near(4), Near(3), Near(4)>>}

QueryNames == {"query_box", "query_box_no_alloc", "query_box_callback"}

\* the operations in one build
NextIn(conv) ==
    \/ \E a \in FarArgs : Construct(a[1], a[2], a[3], a[4], a[5], a[6])
    \/ Idle /\ \E p \in FarPoints, index \in Ids : FarInsert(p[1], p[2], index, conv)
    \/ Clear
    \/ Idle /\ \E name \in QueryNames, r \in FarRects,
                  include_min \in BOOLEAN, include_max \in BOOLEAN :
          FarQuery(name, r[1], r[2], r[3], r[4], include_min, include_max, conv)
    \/ Discard

\* every call in either build
NextFar ==
    \/ \E a \in FarArgs : Construct(a[1], a[2], a[3], a[4], a[5], a[6])
    \/ Idle /\ \E p \in FarPoints, index \in Ids, conv \in Conversions :
          FarInsert(p[1], p[2], index, conv)
    \/ Clear
    \/ Idle /\ \E name \in QueryNames, r \in FarRects, conv \in Conversions,
                  include_min \in BOOLEAN, include_max \in BOOLEAN :
          FarQuery(name, r[1], r[2], r[3], r[4], include_min, include_max, conv)
    \/ Discard

SpecFar == Init /\ [][NextFar]_vars

\* the build whose conversion yields INT_MIN
NextIndefinite == NextIn("indefinite")

SpecIndefinite == Init /\ [][NextIndefinite]_vars

-----------------------------------------------------------------------------
(* queries run by several threads, one read of a bucket at a time *)

\* the grid x: [1,3) [3,5), y: [-1,2) [2,5); a point in cell (0,0), one in cell
\* (1,1); rectangles that select every cell, one cell, and the four cells or,
\* with both edges excluded, none
ReaderArgs == {<<1, 4, 2, -1, 3, 3>>}
ReaderPoints == {<<2, 0>>, <<4, 2>>}
ReaderRects == {<<-1, 6, -4, 6>>, <<2, 2, 0, 0>>, <<1, 3, -1, 2>>}
ReaderCalls ==
    {QueryCall(name, r[1], r[2], r[3], r[4], f, f) :
        name \in {"query_box", "query_box_callback"}, r \in ReaderRects, f \in BOOLEAN}
    \cup {[QueryCall("query_box_no_alloc", r[1], r[2], r[3], r[4], f, f)
              EXCEPT !.result = <<1, 0>>, !.append_results = a] :
              r \in ReaderRects, f \in BOOLEAN, a \in BOOLEAN}

\* no thread is inside a query: the owner may insert or clear
NoneReading == \A t \in Readers : readers[t].pc = "idle"

\* a thread other than t is inside the loops of its query
Concurrent(t) == \E u \in Readers \ {t} : readers[u].pc = "rows"

\* readers after a step of thread t that leaves its locals as new; the threads
\* inside their loops, and t itself, note that another thread ran meanwhile
Stepped(t, new) ==
    [u \in Readers |->
        IF u = t THEN [new EXCEPT !.met = readers[t].met \/ Concurrent(t)]
        ELSE IF readers[u].pc = "rows" THEN [readers[u] EXCEPT !.met = TRUE]
        ELSE readers[u]]

\* thread t enters a query: the destination is cleared unless appended to,
\* get_cell_range is computed, and the loops start at (i_min, j_min); when no
\* column is selected the loops run through without reading a bucket
Begin(t, c) ==
    /\ Idle
    /\ readers[t].pc = "idle"
    /\ LET r == get_cell_range(c.x1, c.x2, c.y1, c.y2, c.include_min, c.include_max)
       IN  readers' = Stepped(t,
               [pc |-> "rows", call |-> c, r |-> r, i |-> r.i_min,
                j |-> IF r.i_min > r.i_max THEN Max(r.j_min, r.j_max + 1) ELSE r.j_min,
                acc |-> IF c.append_results THEN c.result ELSE << >>,
                met |-> FALSE])
    /\ UNCHANGED <<status, args, fields, grid_, pts, call, out>>

\* ReadCell with one buffer shared by the threads for the thread's own
ReadCellShared(t) ==
    /\ readers[t].pc = "rows"
    /\ readers[t].j <= readers[t].r.j_max
    /\ LET me == readers[t]
           cell == grid_[get_cell_id(me.i, me.j) + 1]
           last == me.i >= me.r.i_max
       IN  readers' = [u \in Readers |->
               IF u = t THEN [me EXCEPT !.acc = @ \o cell,
                                        !.i = IF last THEN me.r.i_min ELSE me.i + 1,
                                        !.j = IF last THEN me.j + 1 ELSE me.j]
               ELSE IF readers[u].pc = "rows" THEN [readers[u] EXCEPT !.acc = @ \o cell]
               ELSE readers[u]]
    /\ UNCHANGED <<status, args, fields, grid_, pts, call, out>>

\* one iteration of the inner loop of thread t: const auto& cell = grid_[cell_id],
\* its entries are appended to the result or passed to the callback one by
\* one, and ++i, or ++j and i = i_min after the last column
ReadCell(t) ==
    /\ readers[t].pc = "rows"
    /\ readers[t].j <= readers[t].r.j_max
    /\ LET me == readers[t]
           cell == grid_[get_cell_id(me.i, me.j) + 1]
           last == me.i >= me.r.i_max
       IN  readers' = Stepped(t,
               [me EXCEPT !.acc = IF me.call.name = "query_box_callback"
                                  THEN visit_cell(@, cell, 1) ELSE @ \o cell,
                          !.i = IF last THEN me.r.i_min ELSE me.i + 1,
                          !.j = IF last THEN me.j + 1 ELSE me.j])
    /\ UNCHANGED <<status, args, fields, grid_, pts, call, out>>

\* the outer loop of thread t ends and the query returns
Return(t) ==
    /\ readers[t].pc = "rows"
    /\ readers[t].j > readers[t].r.j_max
    /\ readers' = [readers EXCEPT ![t].pc = "done"]
    /\ UNCHANGED <<status, args, fields, grid_, pts, call, out>>

\* the caller of thread t is done with the result
Release(t) ==
    /\ readers[t].pc = "done"
    /\ readers' = [readers EXCEPT ![t] = NoReader]
    /\ UNCHANGED <<status, args, fields, grid_, pts, call, out>>

\* the owner inserts and clears only while no thread queries
NextReaders ==
    \/ \E a \in ReaderArgs : Construct(a[1], a[2], a[3], a[4], a[5], a[6])
    \/ NoneReading /\ \E p \in ReaderPoints, index \in Ids : Insert(p[1], p[2], index)
    \/ NoneReading /\ Clear
    \/ Discard
    \/ \E t \in Readers, c \in ReaderCalls : Begin(t, c)
    \/ \E t \in Readers : ReadCell(t)
    \/ \E t \in Readers : Return(t)
    \/ \E t \in Readers : Release(t)

SpecReaders == Init /\ [][NextReaders]_vars

-----------------------------------------------------------------------------
(* Vocabulary of the properties *)

IsQuery == call.name \in {"query_box", "query_box_no_alloc", "query_box_callback"}

\* the rectangle of the last query, lower and upper boundary of each axis
XLo == Min(call.x1, call.x2)
XHi == Max(call.x1, call.x2)
YLo == Min(call.y1, call.y2)
YHi == Max(call.y1, call.y2)

\* how often id occurs in the sequence s
Count(s, id) == Cardinality({k \in 1 .. Len(s) : s[k] = id})

\* the insertions since the last clear that carry id and satisfy Test
Inserted(id, Test(_)) == {k \in 1 .. Len(pts) : pts[k][3] = id /\ Test(pts[k])}

\* column i covers [x_start + i*x_step, x_start + (i+1)*x_step); the first column
\* also takes what lies below it, the last column what lies beyond it
InColumn(x, i) ==
    /\ (i = 0 \/ x >= x_start_ + i * x_step_)
    /\ (i = nx_ - 1 \/ x < x_start_ + (i + 1) * x_step_)

InRow(y, j) ==
    /\ (j = 0 \/ y >= y_start_ + j * y_step_)
    /\ (j = ny_ - 1 \/ y < y_start_ + (j + 1) * y_step_)

ColumnOf(x) == CHOOSE i \in 0 .. nx_ - 1 : InColumn(x, i)
RowOf(y) == CHOOSE j \in 0 .. ny_ - 1 : InRow(y, j)

OutsideBounds(p) == p[1] < x_start_ \/ p[1] > x_end_ \/ p[2] < y_start_ \/ p[2] > y_end_

-----------------------------------------------------------------------------
\* C1: with the default flags query_box returns every identifier inserted since
\* the last clear whose coordinates lie in the closed rectangle
\* [min(x1,x2), max(x1,x2)] x [min(y1,y2), max(y1,y2)], each at least as often
\* as it was inserted there; points and rectangles may lie outside the grid.
InClosedRect(p) == XLo <= p[1] /\ p[1] <= XHi /\ YLo <= p[2] /\ p[2] <= YHi

C1_NoFalseNegatives ==
    (call.name = "query_box" /\ call.include_min /\ call.include_max)
    => \A id \in Ids : Count(out, id) >= Cardinality(Inserted(id, InClosedRect))

C1_Witness ==
    /\ call.name = "query_box" /\ call.include_min /\ call.include_max
    /\ call.x1 > call.x2
    /\ Len(pts) = 2
    /\ InClosedRect(pts[1]) /\ OutsideBounds(pts[1])
    /\ ~InClosedRect(pts[2])
    /\ XHi < x_start_

-----------------------------------------------------------------------------
\* C2: with include_min = false query_box returns every stored identifier whose
\* coordinates are strictly greater than the lower boundary on each axis and
\* within the upper boundary as include_max states ((x1,x2] or (x1,x2)).
InLowerOpenRect(p) ==
    /\ XLo < p[1] /\ YLo < p[2]
    /\ IF call.include_max THEN p[1] <= XHi /\ p[2] <= YHi
                           ELSE p[1] < XHi /\ p[2] < YHi

C2_LowerEdgeExcluded ==
    (call.name = "query_box" /\ ~call.include_min)
    => \A id \in Ids : Count(out, id) >= Cardinality(Inserted(id, InLowerOpenRect))

-----------------------------------------------------------------------------
\* C3: with (include_min, include_max) = (true, false) query_box returns every
\* stored identifier with x1 <= x < x2 and y1 <= y < y2; and when the upper
\* boundary of an axis is the boundary that begins cell k, nothing stored in
\* column (row) k or beyond is returned, unless k <= 0, where clamping selects
\* cell 0.
InHalfOpenRect(p) == XLo <= p[1] /\ p[1] < XHi /\ YLo <= p[2] /\ p[2] < YHi

\* the cell a boundary begins (the boundary is a cell boundary)
XCellBegun == (XHi - x_start_) \div x_step_
YCellBegun == (YHi - y_start_) \div y_step_
XOnBoundary == (XHi - x_start_) % x_step_ = 0 /\ XCellBegun >= 1
YOnBoundary == (YHi - y_start_) % y_step_ = 0 /\ YCellBegun >= 1

BelowUpperBoundary(p) ==
    /\ XOnBoundary => ColumnOf(p[1]) < XCellBegun
    /\ YOnBoundary => RowOf(p[2]) < YCellBegun

C3_HalfOpen ==
    (call.name = "query_box" /\ call.include_min /\ ~call.include_max)
    => \A id \in Ids :
          /\ Count(out, id) >= Cardinality(Inserted(id, InHalfOpenRect))
          /\ Count(out, id) <= Cardinality(Inserted(id, BelowUpperBoundary))

C3_Witness ==
    /\ call.name = "query_box" /\ call.include_min /\ ~call.include_max
    /\ XOnBoundary /\ XCellBegun = nx_ - 1
    /\ Len(pts) = 2
    /\ InHalfOpenRect(pts[1]) /\ ColumnOf(pts[2][1]) = nx_ - 1
    /\ Len(out) = 1

-----------------------------------------------------------------------------
\* C4: when the boundaries of an axis are the cell boundaries that begin cells a
\* and b, 0 <= a < b <= n-1, the selected cell range on that axis is [a, b] for
\* (true,true), [a, b-1] for (true,false), [a+1, b] for (false,true) and
\* [a+1, b-1] for (false,false).  On the grid [0,10) step 1 with id 0 at (5,5)
\* and id 1 at (6,6), query_box(5,6,5,6,...) returns {0,1}, {0}, {1} and {}.
Aligned(lo, hi, start, step, n) ==
    /\ (lo - start) % step = 0 /\ (hi - start) % step = 0
    /\ 0 <= (lo - start) \div step
    /\ (lo - start) \div step < (hi - start) \div step
    /\ (hi - start) \div step <= n - 1

ExpectedMin(lo, start, step) ==
    IF call.include_min THEN (lo - start) \div step ELSE (lo - start) \div step + 1
ExpectedMax(hi, start, step) ==
    IF call.include_max THEN (hi - start) \div step ELSE (hi - start) \div step - 1

BoundaryExample ==
    /\ args = <<0, 10, 1, 0, 10, 1>>
    /\ pts = <<<<5, 5, 0>>, <<6, 6, 1>>>>
    /\ call.name = "query_box"
    /\ <<call.x1, call.x2, call.y1, call.y2>> = <<5, 6, 5, 6>>

-----------------------------------------------------------------------------
\* C5: for the same grid state, rectangle and flags, the vector query_box
\* returns, the destination after query_box_no_alloc with append_results =
\* false (whatever it held before) and the sequence of arguments passed to the
\* callback of query_box_callback are the same sequence.
Delivered(name, result) ==
    CASE name = "query_box" ->
            query_box(call.x1, call.x2, call.y1, call.y2,
                      call.include_min, call.include_max)
      [] name = "query_box_no_alloc" ->
            query_box_no_alloc(call.x1, call.x2, call.y1, call.y2, result, FALSE,
                               call.include_min, call.include_max)
      [] name = "query_box_callback" ->
            query_box_callback(call.x1, call.x2, call.y1, call.y2,
                               call.include_min, call.include_max)

C5_VariantsAgree ==
    (IsQuery /\ ~call.append_results)
    => /\ out = Delivered("query_box", << >>)
       /\ out = Delivered("query_box_callback", << >>)
       /\ \A result \in Dests \cup {<< >>} :
             out = Delivered("query_box_no_alloc", result)

C5_Witness ==
    /\ call.name = "query_box_no_alloc" /\ ~call.append_results
    /\ call.result # << >>
    /\ ~call.include_min
    /\ Len(pts) = 2 /\ pts[1][3] # pts[2][3]
    /\ ColumnOf(pts[1][1]) = ColumnOf(pts[2][1]) /\ RowOf(pts[1][2]) = RowOf(pts[2][2])
    /\ Len(out) = 2

-----------------------------------------------------------------------------
-----------------------------------------------------------------------------
\* C7: the step that constructs a grid sets nx to ceil((x_end-x_start)/x_step),
\* the least n with n * x_step >= x_end - x_start, and ny likewise, both >= 1,
\* creates nx * ny buckets and leaves every bucket empty.
LeastCover(n, start, end, step) ==
    /\ n >= 1
    /\ n * step >= end - start
    /\ (n - 1) * step < end - start

-----------------------------------------------------------------------------
\* C8: get_num_points() equals the number of insertions since construction or
\* the last clear, whatever was inserted: identical triples and coordinates
\* outside the bounds count once each.
C8_NumPoints == status = "constructed" => get_num_points = Len(pts)

C8_Witness ==
    /\ status = "constructed"
    /\ Len(pts) = 2 /\ pts[1] = pts[2]
    /\ OutsideBounds(pts[1])
    /\ get_num_points = 2

-----------------------------------------------------------------------------
\* C9: every bucket j*nx + i holds, in insertion order, exactly the identifiers
\* inserted with x in column i and y in row j, where column i is the half-open
\* interval [x_start + i*x_step, x_start + (i+1)*x_step), column 0 also takes
\* every x below x_start and column nx-1 every x at or beyond x_start + nx*x_step
\* (rows likewise); so each insert appended its identifier to that bucket.
RECURSIVE IdsInCell(_, _, _)
IdsInCell(k, i, j) ==
    IF k > Len(pts) THEN << >>
    ELSE IF InColumn(pts[k][1], i) /\ InRow(pts[k][2], j)
         THEN <<pts[k][3]>> \o IdsInCell(k + 1, i, j)
         ELSE IdsInCell(k + 1, i, j)

C9_CellOfPoint ==
    status = "constructed"
    => \A i \in 0 .. nx_ - 1, j \in 0 .. ny_ - 1 :
          grid_[j * nx_ + i + 1] = IdsInCell(1, i, j)

C9_Witness ==
    /\ status = "constructed"
    /\ Len(pts) = 2
    /\ pts[1][1] = x_start_ + x_step_ /\ pts[1][2] < y_start_
    /\ pts[2][1] >= x_start_ + nx_ * x_step_ /\ pts[2][2] = y_start_
    /\ grid_[2] = <<pts[1][3], pts[2][3]>>

-----------------------------------------------------------------------------
\* C10: an insert outside the bounds succeeds and a default-flag query_box whose
\* rectangle meets the cell the point was clamped to returns its identifier
\* (on the grid [0,100) step 10: id 0 of (-10,-10) from cell (0,0), id 1 of
\* (200,200) from cell (nx-1,ny-1)); so does a point inserted at (x_end, y_end).
MeetsCellOf(p) ==
    /\ XLo < x_start_ + (ColumnOf(p[1]) + 1) * x_step_
    /\ XHi >= x_start_ + ColumnOf(p[1]) * x_step_
    /\ YLo < y_start_ + (RowOf(p[2]) + 1) * y_step_
    /\ YHi >= y_start_ + RowOf(p[2]) * y_step_

ClampedAndMet(p) ==
    /\ OutsideBounds(p) \/ (p[1] = x_end_ /\ p[2] = y_end_)
    /\ MeetsCellOf(p)

C10_OutOfBounds ==
    (call.name = "query_box" /\ call.include_min /\ call.include_max)
    => /\ get_num_points = Len(pts)
       /\ \A id \in Ids : Count(out, id) >= Cardinality(Inserted(id, ClampedAndMet))

C10_Witness ==
    /\ args = <<0, 100, 10, 0, 100, 10>>
    /\ pts = <<<<-10, -10, 0>>, <<200, 200, 1>>>>
    /\ call.name = "query_box" /\ call.include_min /\ call.include_max
    /\ <<call.x1, call.x2, call.y1, call.y2>> = <<95, 100, 95, 100>>
    /\ get_num_points = 2
    /\ out = <<1>>

-----------------------------------------------------------------------------
\* C11: an insert appends its identifier to exactly one bucket, after the
\* entries the bucket had, and changes no other bucket, no existing entry, no
\* bound and no dimension; inserting the same (x, y, id) twice leaves two
\* entries in one bucket, and a query whose cell range covers that bucket
\* returns the identifier twice.
IsInsertStep == Len(pts') = Len(pts) + 1

Duplicates == {k \in 2 .. Len(pts) : \E h \in 1 .. k - 1 : pts[h] = pts[k]}

CoversCellOf(p) ==
    LET r == get_cell_range(call.x1, call.x2, call.y1, call.y2,
                            call.include_min, call.include_max)
    IN  /\ r.i_min <= ColumnOf(p[1]) /\ ColumnOf(p[1]) <= r.i_max
        /\ r.j_min <= RowOf(p[2]) /\ RowOf(p[2]) <= r.j_max

TwiceInOneBucket(p) ==
    \E k \in 1 .. Len(grid_) : Count(grid_[k], p[3]) >= 2

TwiceReturned(p) ==
    (IsQuery /\ ~call.append_results /\ CoversCellOf(p)) => Count(out, p[3]) >= 2

C11_InsertGrowsOneBucket ==
    /\ [](\A k \in Duplicates : TwiceInOneBucket(pts[k]) /\ TwiceReturned(pts[k]))
    /\ [][IsInsertStep
            => /\ \E k \in 1 .. Len(grid_) :
                     grid_' = [grid_ EXCEPT ![k] = Append(@, pts'[Len(pts')][3])]
               /\ Len(grid_') = Len(grid_)
               /\ get_bounds' = get_bounds
               /\ get_dimensions' = get_dimensions
               /\ <<x_step_', y_step_'>> = <<x_step_, y_step_>>]_vars

C11_Witness ==
    /\ Len(pts) = 2 /\ pts[1] = pts[2]
    /\ call.name = "query_box_callback"
    /\ CoversCellOf(pts[1])
    /\ out = <<pts[1][3], pts[1][3]>>
    /\ \E k \in 1 .. Len(grid_) : grid_[k] = out

-----------------------------------------------------------------------------
\* C12: after clear() get_num_points() is 0, whatever was inserted before, and
\* as long as nothing is inserted every query of every variant, rectangle and
\* flag combination delivers nothing (a destination that is appended to keeps
\* what it held and gains nothing).
NothingDelivered == out = IF call.append_results THEN call.result ELSE << >>

C12_ClearEmpties ==
    /\ call.name = "clear"
          => /\ get_num_points = 0
             /\ \A k \in 1 .. get_num_cells : grid_[k] = << >>
    /\ IsQuery => (NothingDelivered \/ get_num_points > 0)

C12_Witness ==
    /\ call.name = "clear"
    /\ call.dropped = 2
    /\ get_num_points = 0
    /\ get_num_cells = 100

-----------------------------------------------------------------------------
\* C13: query_box returns the same sequence whichever way round the corners
\* are passed: with x1 and x2 exchanged, with y1 and y2 exchanged, and with
\* both exchanged; include_min applies to the numerically lower boundary and
\* include_max to the numerically higher one, also when they were passed
\* the other way round.
SwappedCornersAgree ==
    call.name = "query_box"
    => LET r == get_cell_range(call.x1, call.x2, call.y1, call.y2,
                               call.include_min, call.include_max)
       IN  /\ out = query_box(call.x2, call.x1, call.y1, call.y2,
                              call.include_min, call.include_max)
           /\ out = query_box(call.x1, call.x2, call.y2, call.y1,
                              call.include_min, call.include_max)
           /\ out = query_box(call.x2, call.x1, call.y2, call.y1,
                              call.include_min, call.include_max)
           /\ (call.x1 > call.x2 /\ Aligned(XLo, XHi, x_start_, x_step_, nx_))
                 => /\ r.i_min = ExpectedMin(XLo, x_start_, x_step_)
                    /\ r.i_max = ExpectedMax(XHi, x_start_, x_step_)
           /\ (call.y1 > call.y2 /\ Aligned(YLo, YHi, y_start_, y_step_, ny_))
                 => /\ r.j_min = ExpectedMin(YLo, y_start_, y_step_)
                    /\ r.j_max = ExpectedMax(YHi, y_start_, y_step_)

C13_SwappedCorners == []SwappedCornersAgree

C13_Witness ==
    /\ call.name = "query_box"
    /\ call.x1 > call.x2 /\ call.y1 > call.y2
    /\ ~call.include_min /\ call.include_max
    /\ Aligned(XLo, XHi, x_start_, x_step_, nx_)
    /\ Aligned(YLo, YHi, y_start_, y_step_, ny_)
    /\ Len(pts) = 2
    /\ out = <<pts[2][3]>>
    /\ query_box(call.x1, call.x2, call.y1, call.y2, TRUE, FALSE) = <<pts[1][3]>>

-----------------------------------------------------------------------------
\* C14: query_box returns the buckets of the selected cells one after the other,
\* row by row with j ascending and within a row with i ascending, each bucket
\* in the order its identifiers were inserted; the length of the result is the
\* sum of the sizes of the selected buckets.
RangeOfCall ==
    get_cell_range(call.x1, call.x2, call.y1, call.y2, call.include_min, call.include_max)

Width == Max(0, RangeOfCall.i_max - RangeOfCall.i_min + 1)
Height == Max(0, RangeOfCall.j_max - RangeOfCall.j_min + 1)

\* the m-th cell in cell-major order of the range that begins at column i_min
\* and row j_min and is w columns wide, m = 1, 2, ...
SelectedColumn(m, i_min, w) == i_min + ((m - 1) % w)
SelectedRow(m, j_min, w) == j_min + ((m - 1) \div w)

RECURSIVE CellMajor(_, _, _, _, _)
CellMajor(m, n, i_min, j_min, w) ==
    IF m > n THEN << >>
    ELSE IdsInCell(1, SelectedColumn(m, i_min, w), SelectedRow(m, j_min, w))
             \o CellMajor(m + 1, n, i_min, j_min, w)

SelectedEntries(n, i_min, j_min, w) ==
    {e \in (1 .. n) \X (1 .. Len(pts)) :
        e[2] <= Len(grid_[SelectedRow(e[1], j_min, w) * nx_
                          + SelectedColumn(e[1], i_min, w) + 1])}

InCellMajorOrder ==
    call.name = "query_box"
    => LET r == RangeOfCall
           w == Max(0, r.i_max - r.i_min + 1)
           h == Max(0, r.j_max - r.j_min + 1)
       IN  /\ out = CellMajor(1, w * h, r.i_min, r.j_min, w)
           /\ Len(out) = Cardinality(SelectedEntries(w * h, r.i_min, r.j_min, w))

C14_CellMajorOrder == []InCellMajorOrder

C14_Witness ==
    /\ call.name = "query_box"
    /\ Width = 2 /\ Height = 2
    /\ Len(pts) = 2 /\ pts[1][3] # pts[2][3]
    /\ ColumnOf(pts[1][1]) = 0 /\ RowOf(pts[1][2]) = 1
    /\ ColumnOf(pts[2][1]) = 1 /\ RowOf(pts[2][2]) = 0
    /\ out = <<pts[2][3], pts[1][3]>>

-----------------------------------------------------------------------------
\* C15: after query_box_no_alloc with append_results = false the destination
\* holds exactly what query_box returns for the same arguments, whatever it
\* held before; with append_results = true it holds what it held before,
\* unchanged and in order, followed by exactly what query_box returns.
ClearedOrAppended ==
    call.name = "query_box_no_alloc"
    => LET found == query_box(call.x1, call.x2, call.y1, call.y2,
                              call.include_min, call.include_max)
       IN  IF call.append_results
           THEN out = call.result \o found
           ELSE out = found

C15_Destination == []ClearedOrAppended

C15_Witness ==
    /\ call.name = "query_box_no_alloc"
    /\ call.append_results
    /\ call.result = <<1, 0>>
    /\ Len(pts) = 2
    /\ out = <<1, 0, pts[1][3], pts[2][3]>>

-----------------------------------------------------------------------------
\* C16: a query whose resolved cell range is inverted on an axis (i_min > i_max
\* or j_min > j_max) delivers nothing and fails in no way, whatever the range
\* on the other axis: no bucket contributes, the callback is not called, and
\* the four resolved indices are cell indices of the grid.
Inverted(r) == r.i_min > r.i_max \/ r.j_min > r.j_max

WithinGrid(r) ==
    /\ 0 <= r.i_min /\ r.i_min <= nx_ - 1
    /\ 0 <= r.i_max /\ r.i_max <= nx_ - 1
    /\ 0 <= r.j_min /\ r.j_min <= ny_ - 1
    /\ 0 <= r.j_max /\ r.j_max <= ny_ - 1

C16_InvertedRange ==
    IsQuery
    => LET r == RangeOfCall
       IN  /\ WithinGrid(r)
           /\ Inverted(r) => NothingDelivered

C16_Witness ==
    /\ call.name = "query_box_callback"
    /\ RangeOfCall.i_min > RangeOfCall.i_max
    /\ RangeOfCall.j_min <= RangeOfCall.j_max
    /\ Len(pts) = 2
    /\ \A k \in 1 .. 2 : /\ RangeOfCall.j_min <= RowOf(pts[k][2])
                         /\ RowOf(pts[k][2]) <= RangeOfCall.j_max
    /\ out = << >>

-----------------------------------------------------------------------------
\* C17: get_bounds(), get_dimensions() and get_num_cells() never change once
\* the grid is constructed: after any insert, clear and query they are the
\* bounds passed to the constructor, the dimensions it computed and nx * ny.
C17_FixedAtConstruction ==
    /\ [](status = "constructed"
            => /\ get_bounds = <<args[1], args[2], args[4], args[5]>>
               /\ LeastCover(get_dimensions[1], args[1], args[2], args[3])
               /\ LeastCover(get_dimensions[2], args[4], args[5], args[6])
               /\ get_num_cells = get_dimensions[1] * get_dimensions[2])
    /\ [][status = "constructed"
            => /\ get_bounds' = get_bounds
               /\ get_dimensions' = get_dimensions
               /\ get_num_cells' = get_num_cells]_vars

C17_Witness ==
    /\ call.name = "clear"
    /\ call.dropped = 2
    /\ get_bounds = <<1, 4, -1, 3>>
    /\ get_dimensions = <<2, 2>>
    /\ get_num_cells = 4

-----------------------------------------------------------------------------
\* C18: clear() called a second time in a row changes nothing: the grid is as
\* the first call left it, every bucket empty, bounds and dimensions the same;
\* and clear() on a grid without entries changes nothing.
IsClearStep == call'.name = "clear" /\ call.name \in {"none", "clear"}

C18_ClearIdempotent ==
    [][IsClearStep
       => /\ \A k \in 1 .. Len(grid_') : grid_'[k] = << >>
          /\ fields' = fields
          /\ (call.name = "clear" \/ count_from(grid_, 1) = 0)
                => /\ grid_' = grid_
                   /\ pts' = pts]_vars

C18_Witness ==
    /\ call.name = "clear"
    /\ call.repeat = 2
    /\ call.dropped = 2
    /\ get_num_cells = 4
    /\ \A k \in 1 .. get_num_cells : grid_[k] = << >>

-----------------------------------------------------------------------------
\* C19: a query delivers the whole bucket of every selected cell, whether or
\* not the coordinates of its identifiers lie in the rectangle.  On the grid of
\* one cell, [0,10) with step 10, holding id 7 inserted at (1,1),
\* query_box(8,9,8,9) returns <<7>>; and on that grid every query with the
\* default flags delivers every stored identifier.
Stored(p) == TRUE

AllStored == [k \in 1 .. Len(pts) |-> pts[k][3]]

CandidateExample ==
    /\ args = <<0, 10, 10, 0, 10, 10>>
    /\ pts = <<<<1, 1, 7>>>>
    /\ call.name = "query_box"
    /\ <<call.x1, call.x2, call.y1, call.y2>> = <<8, 9, 8, 9>>
    /\ call.include_min /\ call.include_max

C19_CandidateSet ==
    /\ CandidateExample => out = <<7>>
    /\ (IsQuery /\ call.include_min /\ call.include_max /\ get_num_cells = 1)
          => /\ \A id \in OneCellIds :
                   Count(out, id) >= Cardinality(Inserted(id, Stored))
             /\ out = (IF call.append_results THEN call.result ELSE << >>) \o AllStored

C19_Witness ==
    /\ CandidateExample
    /\ ~InClosedRect(pts[1])
    /\ get_num_cells = 1
    /\ out = <<7>>

-----------------------------------------------------------------------------
\* C20: when queries of several threads interleave and nothing is inserted or
\* cleared meanwhile, every query delivers exactly what the same query
\* delivers when it runs alone, and no step of a query changes a bucket.
Alone(c) ==
    CASE c.name = "query_box" ->
            query_box(c.x1, c.x2, c.y1, c.y2, c.include_min, c.include_max)
      [] c.name = "query_box_no_alloc" ->
            query_box_no_alloc(c.x1, c.x2, c.y1, c.y2, c.result, c.append_results,
                               c.include_min, c.include_max)
      [] c.name = "query_box_callback" ->
            query_box_callback(c.x1, c.x2, c.y1, c.y2, c.include_min, c.include_max)

C20_ConcurrentReaders ==
    /\ [](\A t \in Readers :
             readers[t].pc = "done" => readers[t].acc = Alone(readers[t].call))
    /\ [][readers' # readers => grid_' = grid_ /\ fields' = fields]_vars

C20_Witness ==
    /\ readers[1].pc = "done" /\ readers[2].pc = "done"
    /\ readers[1].met /\ readers[2].met
    /\ readers[1].call.name = "query_box_callback"
    /\ readers[2].call.name = "query_box_no_alloc"
    /\ Len(readers[1].acc) = 2
    /\ readers[2].acc = <<1, 0>> \o readers[1].acc

-----------------------------------------------------------------------------
\* C21: a query with both edges excluded and, on some axis, both boundaries on
\* one and the same cell boundary delivers nothing, wherever that boundary
\* lies: inside the grid, at its first or last cell, or outside it.
Degenerate(v1, v2, start, step) == v1 = v2 /\ (v1 - start) % step = 0

C21_DegenerateExcluded ==
    (IsQuery /\ ~call.include_min /\ ~call.include_max
        /\ (\/ Degenerate(call.x1, call.x2, x_start_, x_step_)
            \/ Degenerate(call.y1, call.y2, y_start_, y_step_)))
    => NothingDelivered

\* C21 as it holds: the boundary begins a cell k of the grid, 0 <= k <= n-1, and
\* the axis has at least two cells.  For a boundary below the grid (k < 0) or
\* beyond its last cell (k >= n), and on an axis of one cell, clamping selects
\* the nearest cell of that axis instead: cell 0 or cell n-1.
BeginsCell(v, start, step, n) == 0 <= (v - start) \div step /\ (v - start) \div step <= n - 1

EmptiedAxis(v1, v2, start, step, n) ==
    Degenerate(v1, v2, start, step) /\ BeginsCell(v1, start, step, n) /\ n >= 2

NearestCell(v, start, step, n) == IF (v - start) \div step < 0 THEN 0 ELSE n - 1

DegenerateInsideOrClamped ==
    (IsQuery /\ ~call.include_min /\ ~call.include_max)
    => LET r == RangeOfCall
       IN  /\ (\/ EmptiedAxis(call.x1, call.x2, x_start_, x_step_, nx_)
               \/ EmptiedAxis(call.y1, call.y2, y_start_, y_step_, ny_))
                 => NothingDelivered
           /\ (/\ Degenerate(call.x1, call.x2, x_start_, x_step_)
               /\ ~EmptiedAxis(call.x1, call.x2, x_start_, x_step_, nx_))
                 => /\ r.i_min = NearestCell(call.x1, x_start_, x_step_, nx_)
                    /\ r.i_max = NearestCell(call.x1, x_start_, x_step_, nx_)
           /\ (/\ Degenerate(call.y1, call.y2, y_start_, y_step_)
               /\ ~EmptiedAxis(call.y1, call.y2, y_start_, y_step_, ny_))
                 => /\ r.j_min = NearestCell(call.y1, y_start_, y_step_, ny_)
                    /\ r.j_max = NearestCell(call.y1, y_start_, y_step_, ny_)

C21_DegenerateInsideGrid == []DegenerateInsideOrClamped

C21_Witness ==
    /\ call.name = "query_box" /\ ~call.include_min /\ ~call.include_max
    /\ EmptiedAxis(call.x1, call.x2, x_start_, x_step_, nx_)
    /\ (call.x1 - x_start_) \div x_step_ = nx_ - 1
    /\ ~Degenerate(call.y1, call.y2, y_start_, y_step_)
    /\ Len(pts) = 2
    /\ ColumnOf(pts[1][1]) = 0 /\ ColumnOf(pts[2][1]) = nx_ - 1
    /\ YLo < pts[1][2] /\ pts[1][2] < YHi
    /\ YLo < pts[2][2] /\ pts[2][2] < YHi
    /\ out = << >>

-----------------------------------------------------------------------------
\* C22: with include_min = false and the lower boundary of an axis on the
\* boundary that begins cell k, 0 <= k < n-1, nothing stored in cell k of that
\* axis (or in a cell before it) is delivered, also not an identifier whose
\* coordinate is strictly greater than the boundary.  On the grid [0,10) step 1
\* with points at (5.3,5.7) and (5.8,5.2), query_box(5,6,5,6,false,true) returns
\* nothing (lengths in tenths: grid [0,100) step 10, points (53,57), (58,52),
\* box 50..60).
ExcludesCell(lo, start, step, n) ==
    /\ (lo - start) % step = 0
    /\ 0 <= (lo - start) \div step
    /\ (lo - start) \div step < n - 1

AfterExcludedCells(p) ==
    /\ ExcludesCell(XLo, x_start_, x_step_, nx_)
          => ColumnOf(p[1]) > (XLo - x_start_) \div x_step_
    /\ ExcludesCell(YLo, y_start_, y_step_, ny_)
          => RowOf(p[2]) > (YLo - y_start_) \div y_step_

NonBoundaryExample ==
    /\ args = <<0, 100, 10, 0, 100, 10>>
    /\ pts = <<<<53, 57, 0>>, <<58, 52, 1>>>>
    /\ call.name = "query_box"
    /\ <<call.x1, call.x2, call.y1, call.y2>> = <<50, 60, 50, 60>>
    /\ ~call.include_min /\ call.include_max

LowerCellExcluded ==
    /\ (IsQuery /\ ~call.append_results /\ ~call.include_min)
          => \A id \in Ids :
                Count(out, id) <= Cardinality(Inserted(id, AfterExcludedCells))
    /\ NonBoundaryExample => out = << >>

-----------------------------------------------------------------------------
\* C23: when none of x1, x2, y1, y2 lies on a cell boundary, query_box returns
\* the same result for all four combinations of include_min and include_max:
\* the contents of the columns floor((x1-x_start)/x_step) ..
\* floor((x2-x_start)/x_step) and rows floor((y1-y_start)/y_step) ..
\* floor((y2-y_start)/y_step), each index clamped to the grid.
OffBoundaries ==
    /\ (call.x1 - x_start_) % x_step_ # 0 /\ (call.x2 - x_start_) % x_step_ # 0
    /\ (call.y1 - y_start_) % y_step_ # 0 /\ (call.y2 - y_start_) % y_step_ # 0

FlagsImmaterial ==
    (call.name = "query_box" /\ OffBoundaries)
    => /\ RangeOfCall = [i_min |-> ColumnOf(XLo), i_max |-> ColumnOf(XHi),
                         j_min |-> RowOf(YLo), j_max |-> RowOf(YHi)]
       /\ \A include_min \in BOOLEAN, include_max \in BOOLEAN :
             out = query_box(call.x1, call.x2, call.y1, call.y2, include_min, include_max)

C23_FlagsImmaterial == []FlagsImmaterial

C23_Witness ==
    /\ call.name = "query_box" /\ OffBoundaries
    /\ ~call.include_min /\ ~call.include_max
    /\ call.x1 > call.x2
    /\ XLo < x_start_
    /\ RangeOfCall.i_min < RangeOfCall.i_max
    /\ Len(pts) = 2 /\ Len(out) = 2

-----------------------------------------------------------------------------
\* C24: when nx, ny or the product nx * ny computed by the constructor exceeds
\* the range of int, construction fails with std::invalid_argument; no grid
\* with a wrapped, wrong number of buckets comes into being.
ExceedsInt(a) ==
    /\ a[3] > 0 /\ a[6] > 0 /\ a[1] < a[2] /\ a[4] < a[5]
    /\ Ceil(a[2] - a[1], a[3]) > IntMax \div Ceil(a[5] - a[4], a[6])

C24_OverflowRejected ==
    (status # "none" /\ ExceedsInt(args))
    => /\ status = "invalid_argument"
       /\ grid_ = << >>

-----------------------------------------------------------------------------
\* C25: every bucket position that insert and the three queries access lies in
\* 0 .. nx*ny - 1, whatever the coordinates (also those whose cell index is no
\* int, and NaN) and the flags; the four indices of get_cell_range lie in
\* 0 .. nx-1 and 0 .. ny-1, also when the range is inverted.  For coordinates
\* the model's integers hold, the indices are those of get_cell_x, get_cell_y
\* and get_cell_range.
AllNear(cs) == \A k \in 1 .. Len(cs) : cs[k].far = "no"

\* the positions of grid_ the loops over the cell range r read
BucketsAccessed(r) == {get_cell_id(i, j) : i \in r.i_min .. r.i_max, j \in r.j_min .. r.j_max}

C25_AccessWithinGrid ==
    /\ status = "constructed" => Len(grid_) = nx_ * ny_
    /\ call.name = "insert"
       => /\ 0 <= call.cell_id /\ call.cell_id <= nx_ * ny_ - 1
          /\ count_from(grid_, 1) = Len(pts)
          /\ AllNear(call.corners)
             => call.cell_id = get_cell_id(get_cell_x(call.corners[1].at),
                                           get_cell_y(call.corners[2].at))
    /\ (IsQuery /\ ~call.trapped)
       => /\ WithinGrid(call.r)
          /\ \A k \in BucketsAccessed(call.r) : 0 <= k /\ k <= nx_ * ny_ - 1
          /\ AllNear(call.corners)
             => call.r = get_cell_range(call.corners[1].at, call.corners[2].at,
                                        call.corners[3].at, call.corners[4].at,
                                        call.include_min, call.include_max)

\* a query with both edges excluded over a rectangle given from far above to
\* far below the grid of 2 x 2 cells returns the two points inserted far
\* outside it
C25_Witness ==
    /\ IsQuery /\ ~call.trapped
    /\ ~call.include_min /\ ~call.include_max
    /\ call.corners[1].far = "above" /\ call.corners[2].far = "below"
    /\ nx_ = 2 /\ ny_ = 2
    /\ Len(pts) = 2 /\ pts[1][1].far = "below" /\ pts[2][1].far = "above_off"
    /\ Len(out) = 2

-----------------------------------------------------------------------------
\* C26: queries are read-only.  A step of query_box, query_box_no_alloc or
\* query_box_callback leaves every bucket, the bounds and the dimensions as
\* they were, and get_num_points() with them; only the result (the caller's
\* destination for query_box_no_alloc) changes.  So the same query made again
\* in the state the query left returns what it returned.
IsQueryStep == call.name = "none" /\ call'.name \in QueryNames

\* what the query just made delivers when it is made again now
Repeated ==
    CASE call.name = "query_box" ->
            query_box(call.x1, call.x2, call.y1, call.y2,
                      call.include_min, call.include_max)
      [] call.name = "query_box_no_alloc" ->
            query_box_no_alloc(call.x1, call.x2, call.y1, call.y2,
                               call.result, call.append_results,
                               call.include_min, call.include_max)
      [] call.name = "query_box_callback" ->
            query_box_callback(call.x1, call.x2, call.y1, call.y2,
                               call.include_min, call.include_max)

C26_QueriesReadOnly ==
    /\ [][IsQueryStep
          => /\ grid_' = grid_
             /\ fields' = fields
             /\ count_from(grid_', 1) = count_from(grid_, 1)
             /\ <<status, args, pts>>' = <<status, args, pts>>]_vars
    /\ [](IsQuery => out = Repeated)

\* query_box_no_alloc has appended the two entries of the grid to the two the
\* destination held; the grid still holds its two entries
C26_Witness ==
    /\ call.name = "query_box_no_alloc" /\ call.append_results
    /\ Len(call.result) = 2
    /\ Len(out) = 4
    /\ get_num_points = 2

-----------------------------------------------------------------------------
\* C27: with both flags true the cell range of a query is never inverted: for
\* every rectangle (four numbers, in any order, also entirely outside the
\* grid) i_min <= i_max and j_min <= j_max, so at least one cell is selected;
\* a rectangle entirely beyond the grid on an axis selects the nearest
\* boundary column or row.
IsRectangle == \A k \in 1 .. 4 : call.corners[k].far # "nan"

\* both boundaries of the axis lie far on the side named
EntirelyFar(c1, c2, side) ==
    IF side = "above" THEN far_rank(c1) > 0 /\ far_rank(c2) > 0
    ELSE far_rank(c1) < 0 /\ far_rank(c2) < 0

C27_NeverInverted ==
    (IsQuery /\ call.include_min /\ call.include_max /\ IsRectangle)
    => /\ call.r.i_min <= call.r.i_max
       /\ call.r.j_min <= call.r.j_max
       /\ EntirelyFar(call.corners[1], call.corners[2], "above")
          => call.r.i_min = nx_ - 1 /\ call.r.i_max = nx_ - 1
       /\ EntirelyFar(call.corners[3], call.corners[4], "above")
          => call.r.j_min = ny_ - 1 /\ call.r.j_max = ny_ - 1
       /\ EntirelyFar(call.corners[1], call.corners[2], "below")
          => call.r.i_min = 0 /\ call.r.i_max = 0
       /\ EntirelyFar(call.corners[3], call.corners[4], "below")
          => call.r.j_min = 0 /\ call.r.j_max = 0

-----------------------------------------------------------------------------
\* C28: excluding an edge never adds results.  For every grid state and
\* rectangle the cells selected with include_min = false are among those
\* selected with include_min = true and the same include_max, likewise for
\* include_max; so what a query returns under any flags is a sub-sequence of
\* what it returns for the same rectangle with both flags true.
CellsOf(r) == {<<i, j>> : i \in r.i_min .. r.i_max, j \in r.j_min .. r.j_max}

\* can s be had from t by leaving entries out?  (s from position h, t from k)
RECURSIVE SubSequenceFrom(_, _, _, _)
SubSequenceFrom(s, h, t, k) ==
    IF h > Len(s) THEN TRUE
    ELSE IF k > Len(t) THEN FALSE
    ELSE IF s[h] = t[k] THEN SubSequenceFrom(s, h + 1, t, k + 1)
    ELSE SubSequenceFrom(s, h, t, k + 1)

\* the cell ranges the rectangle of the call resolves to under other flags
RangesUnder(include_min, include_max) ==
    {r \in far_get_cell_range(call.corners[1], call.corners[2],
                              call.corners[3], call.corners[4],
                              include_min, include_max, call.conv) : ~r.trapped}

C28_ExclusionNeverAdds ==
    (IsQuery /\ IsRectangle /\ ~call.trapped)
    => /\ \A r \in RangesUnder(TRUE, call.include_max) : CellsOf(call.r) \subseteq CellsOf(r)
       /\ \A r \in RangesUnder(call.include_min, TRUE) : CellsOf(call.r) \subseteq CellsOf(r)
       /\ \A r \in RangesUnder(TRUE, TRUE) :
             SubSequenceFrom(out, 1, far_traversal(call.name, r), 1)

-----------------------------------------------------------------------------
\* C29: with both flags true a query is monotone in its rectangle: if
\* rectangle A is contained in rectangle B, every cell selected for A is
\* selected for B, and every identifier returned for A is returned for B at
\* least as often.
NoGreater(c1, c2) == ~far_greater(c1, c2)

\* is the rectangle a (corners in any order, no NaN) contained in the
\* rectangle of the call?
ContainedInCall(a) ==
    LET ax == far_ordered(a[1], a[2])
        ay == far_ordered(a[3], a[4])
        bx == far_ordered(call.corners[1], call.corners[2])
        by == far_ordered(call.corners[3], call.corners[4])
    IN  /\ \A k \in 1 .. 4 : a[k].far # "nan"
        /\ NoGreater(bx[1], ax[1]) /\ NoGreater(ax[2], bx[2])
        /\ NoGreater(by[1], ay[1]) /\ NoGreater(ay[2], by[2])

C29_Monotone ==
    (IsQuery /\ call.include_min /\ call.include_max /\ IsRectangle)
    => \A a \in {q \in FarRects : ContainedInCall(q)} :
          \A r \in far_get_cell_range(a[1], a[2], a[3], a[4], TRUE, TRUE, call.conv) :
             /\ CellsOf(r) \subseteq CellsOf(call.r)
             /\ \A id \in Ids :
                   Count(far_traversal(call.name, r), id) <= Count(out, id)

-----------------------------------------------------------------------------
(* the claims about where a coordinate belongs, for coordinates of any
   magnitude *)

\* min(c1, c2) <= c <= max(c1, c2)
FarWithin(c, c1, c2) ==
    LET o == far_ordered(c1, c2)
    IN  c.far # "nan" /\ NoGreater(o[1], c) /\ NoGreater(c, o[2])

\* min(c1, c2) <= c < max(c1, c2)
FarWithinHalfOpen(c, c1, c2) ==
    LET o == far_ordered(c1, c2)
    IN  c.far # "nan" /\ NoGreater(o[1], c) /\ far_greater(o[2], c)

FarInClosedRect(p) ==
    /\ FarWithin(p[1], call.corners[1], call.corners[2])
    /\ FarWithin(p[2], call.corners[3], call.corners[4])

FarInHalfOpenRect(p) ==
    /\ FarWithinHalfOpen(p[1], call.corners[1], call.corners[2])
    /\ FarWithinHalfOpen(p[2], call.corners[3], call.corners[4])

\* the insertions of id since the last clear at a point that satisfies P
FarInserted(id, P(_)) == {k \in 1 .. Len(pts) : pts[k][3] = id /\ P(pts[k])}

\* clamp(floor((c - start) / step), 0, n - 1) of a number c
ClampedFloor(c, start, step, n) ==
    IF c.far = "no" THEN Max(0, Min((c.at - start) \div step, n - 1))
    ELSE IF far_rank(c) > 0 THEN n - 1
    ELSE 0

\* C1: with the default flags query_box returns every identifier inserted since
\* the last clear whose coordinates lie in the closed rectangle, each at least
\* as often as it was inserted there, for every rectangle and every point,
\* however far outside the grid.
C1_NoFalseNegativesFar ==
    (call.name = "query_box" /\ call.include_min /\ call.include_max /\ IsRectangle)
    => \A id \in Ids : Count(out, id) >= Cardinality(FarInserted(id, FarInClosedRect))

\* C3: with the flags (true, false) query_box returns, for every rectangle,
\* every stored identifier whose coordinates satisfy x1 <= x < x2 and
\* y1 <= y < y2.
C3_HalfOpenFar ==
    (call.name = "query_box" /\ call.include_min /\ ~call.include_max
        /\ IsRectangle /\ ~call.trapped)
    => \A id \in Ids : Count(out, id) >= Cardinality(FarInserted(id, FarInHalfOpenRect))

\* C9: insert(x, y, id) appends id to the bucket at j*nx + i with
\* i = clamp(floor((x - x_start)/x_step), 0, nx-1) and j likewise: a point
\* below x_start lands in column 0, a point at or beyond x_start + nx*x_step
\* in column nx-1.
C9_CellOfPointFar ==
    (call.name = "insert" /\ call.corners[1].far # "nan" /\ call.corners[2].far # "nan")
    => call.cell_id = ClampedFloor(call.corners[2], y_start_, y_step_, ny_) * nx_
                      + ClampedFloor(call.corners[1], x_start_, x_step_, nx_)

\* C23: when none of x1, x2, y1, y2 is on a cell boundary, the query selects,
\* whatever the flags, the cells floor((x1-x_start)/x_step) ..
\* floor((x2-x_start)/x_step) by floor((y1-y_start)/y_step) ..
\* floor((y2-y_start)/y_step), clamped to the grid.
OffBoundary(c, start, step) ==
    IF c.far = "no" THEN (c.at - start) % step # 0 ELSE c.far \in {"below_off", "above_off"}

C23_FlagsImmaterialFar ==
    (/\ IsQuery
     /\ OffBoundary(call.corners[1], x_start_, x_step_)
     /\ OffBoundary(call.corners[2], x_start_, x_step_)
     /\ OffBoundary(call.corners[3], y_start_, y_step_)
     /\ OffBoundary(call.corners[4], y_start_, y_step_))
    => LET xs == far_ordered(call.corners[1], call.corners[2])
           ys == far_ordered(call.corners[3], call.corners[4])
       IN  /\ ~call.trapped
           /\ call.r = [i_min |-> ClampedFloor(xs[1], x_start_, x_step_, nx_),
                        i_max |-> ClampedFloor(xs[2], x_start_, x_step_, nx_),
                        j_min |-> ClampedFloor(ys[1], y_start_, y_step_, ny_),
                        j_max |-> ClampedFloor(ys[2], y_start_, y_step_, ny_)]

====
